---- MODULE Spec2Model ----
(***************************************************************************)
(* Model of package "unused" (src/unused/unused_func_finder.go): the       *)
(* UnusedFuncFinder, its collector, caller index and unused-set computer.  *)
(*                                                                         *)
(* Go strings are TLA+ strings; the string functions of the Go standard    *)
(* library the code calls are operators that compute what they compute.    *)
(* A Go slice that may be nil is a record [isNil, items].  The file        *)
(* system, the parser and the oracle are the environment: the files and    *)
(* their declarations are fixed below, which of them are broken is chosen  *)
(* in Init, and the oracle's answer is chosen at every Run.                *)
(* Logging (Logf, Errorf, Verbose, LogWriter) changes no state of the      *)
(* finder and is left out, as are the fields Run never reads               *)
(* (CallgraphJSON, ExportedOnly, SkipMethods).                             *)
(***************************************************************************)
EXTENDS Integers, Sequences, FiniteSets, TLC

VARIABLES
    Callgraph,      \* uff.Callgraph: [isNil, items], items a sequence of [Name, Pos]
    Ignore,         \* uff.Ignore
    IncludeAll,     \* uff.IncludeAll
    Idents,         \* uff.Idents
    filesByCaller,  \* uff.filesByCaller: function from the keys present to position lists
    pkgs,           \* uff.pkgs, a set
    funcs,          \* uff.funcs, a sequence of [Name, File]
    numFilesRead,   \* uff.numFilesRead
    GOPATH,         \* os.Getenv("GOPATH")
    badFiles,       \* files parser.ParseFile fails on
    statErrs,       \* entries os.Lstat fails on during a walk
    runs,           \* number of Run calls made on this finder
    last,           \* observation of the latest Run call on this finder
    prev            \* observation of the Run call before it

vars == <<Callgraph, Ignore, IncludeAll, Idents, filesByCaller, pkgs, funcs,
          numFilesRead, GOPATH, badFiles, statErrs, runs, last, prev>>

\* Run calls made on one finder before a new one is constructed.
MaxRuns == 2

-----------------------------------------------------------------------------
(* Go standard library string and path functions, as the code uses them.   *)

Max(S) == CHOOSE x \in S : \A y \in S : y <= x

\* strings.Contains(s, substr)
Contains(s, substr) ==
    \E i \in 1..(Len(s) - Len(substr) + 1) : SubSeq(s, i, i + Len(substr) - 1) = substr

\* strings.HasPrefix(s, prefix)
HasPrefix(s, prefix) ==
    Len(s) >= Len(prefix) /\ SubSeq(s, 1, Len(prefix)) = prefix

\* strings.HasSuffix(s, suffix)
HasSuffix(s, suffix) ==
    Len(s) >= Len(suffix) /\ SubSeq(s, Len(s) - Len(suffix) + 1, Len(s)) = suffix

\* strings.TrimPrefix(s, prefix)
TrimPrefix(s, prefix) ==
    IF HasPrefix(s, prefix) THEN SubSeq(s, Len(prefix) + 1, Len(s)) ELSE s

\* strings.LastIndex(s, sep) for a one-byte sep: 0-based index, -1 when absent
LastIndex(s, sep) ==
    LET hits == {i \in 1..Len(s) : SubSeq(s, i, i) = sep}
    IN  IF hits = {} THEN -1 ELSE Max(hits) - 1

\* s[idx:] of Go, idx 0-based
SliceFrom(s, idx) == SubSeq(s, idx + 1, Len(s))

\* strings.Index(s, sep) for a one-byte sep: 0-based index, -1 when absent
IndexOf(s, sep) ==
    LET hits == {i \in 1..Len(s) : SubSeq(s, i, i) = sep}
    IN  IF hits = {} THEN -1 ELSE (CHOOSE i \in hits : \A j \in hits : i <= j) - 1

\* filepath.SplitList(path): "" gives the empty list, else split on ':'
RECURSIVE SplitOnColon(_)
SplitOnColon(s) ==
    LET i == IndexOf(s, ":")
    IN  IF i = -1 THEN <<s>>
        ELSE <<SubSeq(s, 1, i)>> \o SplitOnColon(SliceFrom(s, i + 1))

SplitList(path) == IF path = "" THEN <<>> ELSE SplitOnColon(path)

\* filepath.Join(elem, name) on clean operands
Join(elem, name) ==
    IF elem = "" THEN name
    ELSE IF HasSuffix(elem, "/") THEN elem \o name
    ELSE elem \o "/" \o name

\* filepath.Dir(path) on a clean path
Dir(path) ==
    LET i == LastIndex(path, "/")
    IN  IF i = -1 THEN "."
        ELSE IF i = 0 THEN "/"
        ELSE SubSeq(path, 1, i)

-----------------------------------------------------------------------------
(* The environment: working directory, file tree, parsed files.            *)

Cwd == "/g/src/p"

\* filepath.Abs(filename) on a clean path
Abs(filename) == IF HasPrefix(filename, "/") THEN filename ELSE Join(Cwd, filename)

\* directories and their entries in the lexical order filepath.Walk reads them
DirEntries ==
    [d \in {"/g/src/p", "/g/src/p/s"} |->
        IF d = "/g/src/p" THEN <<"a.go", "b.go", "n.txt", "s">> ELSE <<"c.go">>]

\* what parser.ParseFile yields for a file: the package clause and the nodes
\* ast.Inspect visits, a FuncDecl as its name and any other node as ""
SourceFiles ==
    [f \in {"/g/src/p/a.go", "/g/src/p/b.go", "/g/src/p/s/c.go", "/o/m.go"} |->
        CASE f = "/g/src/p/a.go"   -> [pkg |-> "main", nodes |-> <<"", "foo", "main", "TestFoo">>]
          [] f = "/g/src/p/b.go"   -> [pkg |-> "main", nodes |-> <<"bar", "", "init", "foo">>]
          [] f = "/g/src/p/s/c.go" -> [pkg |-> "s",    nodes |-> <<"test", "baz">>]
          [] f = "/o/m.go"         -> [pkg |-> "m",    nodes |-> <<"latest", "fooTest">>]]

\* isDir(filename): os.Stat succeeds and reports a directory
isDir(filename) == Abs(filename) \in DOMAIN DirEntries

\* parser.ParseFile(fset, filename, nil, 0) returns no error
ParseOK(filename) ==
    Abs(filename) \in DOMAIN SourceFiles /\ Abs(filename) \notin badFiles

-----------------------------------------------------------------------------
(* Declaration Collector.  The collecting operators thread the part of the *)
(* finder a read changes, c = [funcs, pkgs, numFilesRead, parsed], where   *)
(* parsed logs the files handed to the parser.                             *)

\* getFullPkgName(filename): [err, pkg]
RECURSIVE PkgFromRoots(_, _)
PkgFromRoots(abs, goPaths) ==
    IF goPaths = <<>> THEN [err |-> TRUE, pkg |-> ""]
    ELSE LET p == Join(Head(goPaths), "src") \o "/"
         IN  IF ~HasPrefix(abs, p) THEN PkgFromRoots(abs, Tail(goPaths))
             ELSE [err |-> FALSE, pkg |-> Dir(TrimPrefix(abs, p))]

getFullPkgName(filename) == PkgFromRoots(Abs(filename), SplitList(GOPATH))

\* AddPkg(pkgName)
AddPkg(set, pkgName) == set \cup {pkgName}

\* the name switch comparing with "Test" where it should search for it
IsExcluded_TestExact(s) ==
    \/ s = "Test"
    \/ s = "main"
    \/ s = "init"
    \/ s = "test"

\* the name switch of the ast.Inspect callback: TRUE when the name is skipped
IsExcluded(s) ==
    \/ Contains(s, "Test")
    \/ s = "main"
    \/ s = "init"
    \/ s = "test"

\* the callback keeping a record only the first time it is met
InspectNode_Dedup(fs, s, filename) ==
    IF s # "" /\ ~IsExcluded(s)
          /\ \A i \in 1..Len(fs) : fs[i] # [Name |-> s, File |-> filename]
    THEN Append(fs, [Name |-> s, File |-> filename])
    ELSE fs

\* the ast.Inspect callback on one node
InspectNode(fs, s, filename) ==
    IF s # "" /\ ~IsExcluded(s)
    THEN Append(fs, [Name |-> s, File |-> filename])
    ELSE fs

\* ast.Inspect(f, ...) over the nodes of the file, in source order
RECURSIVE Inspect(_, _, _)
Inspect(fs, nodes, filename) ==
    IF nodes = <<>> THEN fs
    ELSE Inspect(InspectNode(fs, Head(nodes), filename), Tail(nodes), filename)

\* readFuncsAndImportsFromFile(filename): [c, err]
readFuncsAndImportsFromFile(c, filename) ==
    LET c1 == [c EXCEPT !.parsed = Append(@, filename)]
    IN  IF ~ParseOK(filename) THEN [c |-> c1, err |-> TRUE]
        ELSE LET f     == SourceFiles[Abs(filename)]
                 needs == f.pkg = "main" \/ IncludeAll
                 full  == getFullPkgName(filename)
             IN  IF needs /\ full.err THEN [c |-> c1, err |-> TRUE]
                 ELSE [c   |-> [c1 EXCEPT
                                  !.pkgs = IF needs THEN AddPkg(@, full.pkg) ELSE @,
                                  !.funcs = Inspect(@, f.nodes, filename),
                                  !.numFilesRead = @ + 1],
                       err |-> FALSE]

\* canReadSourceFile(filename)
canReadSourceFile(filename) ==
    /\ ~(Ignore # "" /\ Contains(filename, Ignore))
    /\ HasSuffix(filename, ".go")

\* the walk function readDir hands to filepath.Walk: [c, err]
WalkFn(c, path, isdir, err) ==
    IF ~err /\ ~isdir /\ canReadSourceFile(path)
    THEN readFuncsAndImportsFromFile(c, path)
    ELSE [c |-> c, err |-> err]

\* filepath.Walk's walk(path, info, walkFn), after Lstat(path) succeeded;
\* WalkNames is its loop over the directory's sorted names
RECURSIVE Walk(_, _), WalkNames(_, _, _)
Walk(c, path) ==
    IF ~isDir(path) THEN WalkFn(c, path, FALSE, FALSE)
    ELSE LET r == WalkFn(c, path, TRUE, FALSE)
         IN  IF r.err THEN r ELSE WalkNames(r.c, path, DirEntries[Abs(path)])

WalkNames(c, dir, names) ==
    IF names = <<>> THEN [c |-> c, err |-> FALSE]
    ELSE LET filename == Join(dir, Head(names))
             r == IF Abs(filename) \in statErrs
                  THEN WalkFn(c, filename, FALSE, TRUE)
                  ELSE Walk(c, filename)
         IN  IF r.err THEN r ELSE WalkNames(r.c, dir, Tail(names))

\* readDir(dirname): [c, err]
readDir(c, dirname) ==
    IF Abs(dirname) \in statErrs THEN WalkFn(c, dirname, FALSE, TRUE) ELSE Walk(c, dirname)

\* one iteration of Run's loop over fileArgs; an error is logged and dropped
ReadArg(c, filename) ==
    IF isDir(filename) THEN readDir(c, filename).c
    ELSE IF canReadSourceFile(filename) THEN readFuncsAndImportsFromFile(c, filename).c
    ELSE c

\* Run's loop over fileArgs
RECURSIVE ReadArgs(_, _)
ReadArgs(c, fileArgs) ==
    IF fileArgs = <<>> THEN c ELSE ReadArgs(ReadArg(c, Head(fileArgs)), Tail(fileArgs))

-----------------------------------------------------------------------------
(* Caller Index Builder and Unused-Set Computer.                           *)

\* the loop body cutting the name at its first dot
AddEntry_FirstDot(fbc, entry) ==
    LET idx == IndexOf(entry.Name, ".") + 1
        key == SliceFrom(entry.Name, idx)
    IN  IF idx # 0
        THEN [k \in DOMAIN fbc \cup {key} |->
                 IF k = key
                 THEN (IF key \in DOMAIN fbc THEN fbc[key] ELSE <<>>) \o <<entry.Pos>>
                 ELSE fbc[k]]
        ELSE fbc

\* one iteration of buildFileMap's loop
AddEntry(fbc, entry) ==
    LET idx == LastIndex(entry.Name, ".") + 1
        key == SliceFrom(entry.Name, idx)
    IN  IF idx # 0
        THEN [k \in DOMAIN fbc \cup {key} |->
                 IF k = key
                 THEN (IF key \in DOMAIN fbc THEN fbc[key] ELSE <<>>) \o <<entry.Pos>>
                 ELSE fbc[k]]
        ELSE fbc

\* buildFileMap(): the index after the loop over the call graph
RECURSIVE buildFileMap(_, _)
buildFileMap(fbc, cg) ==
    IF cg = <<>> THEN fbc ELSE buildFileMap(AddEntry(fbc, Head(cg)), Tail(cg))

\* isInCG comparing a position with the file where it should search in it
isInCG_Equal(fbc, f) ==
    IF f.Name \notin DOMAIN fbc THEN FALSE
    ELSE \E i \in 1..Len(fbc[f.Name]) : fbc[f.Name][i] = f.File

\* isInCG(f)
isInCG(fbc, f) ==
    IF f.Name \notin DOMAIN fbc THEN FALSE
    ELSE \E i \in 1..Len(fbc[f.Name]) : Contains(fbc[f.Name][i], f.File)

\* the loop body putting a finding in front of the list
AddUnused_Prepend(unused, fbc, f) ==
    IF ~isInCG(fbc, f) THEN <<f>> \o unused ELSE unused

\* one iteration of computeUnusedFuncs' loop
AddUnused(unused, fbc, f) ==
    IF ~isInCG(fbc, f) THEN Append(unused, f) ELSE unused

\* computeUnusedFuncs()
RECURSIVE UnusedFrom(_, _, _)
UnusedFrom(unused, fbc, fs) ==
    IF fs = <<>> THEN unused
    ELSE UnusedFrom(AddUnused(unused, fbc, Head(fs)), fbc, Tail(fs))

computeUnusedFuncs(fbc, fs) == UnusedFrom(<<>>, fbc, fs)

-----------------------------------------------------------------------------
(* Run.                                                                    *)

NilSlice == [isNil |-> TRUE, items |-> <<>>]
Slice(items) == [isNil |-> FALSE, items |-> items]

\* the sanity checks without the GOPATH check
SanityError_ArgsOnly(fileArgs) ==
    IF Len(fileArgs) = 0 THEN "no files supplied as arguments" ELSE ""

\* the sanity checks that open Run: the error returned, "" when they pass
SanityError(fileArgs) ==
    IF Len(fileArgs) = 0 THEN "no files supplied as arguments"
    ELSE IF GOPATH = "" THEN "GOPATH not set"
    ELSE ""

\* the branch never taken
ReturnsIdents_Never(idents) == FALSE

\* Run's branch after the collection stage
ReturnsIdents(idents) == idents

\* findUnusedIdents(): hands back the collected declarations, asks no oracle
findUnusedIdents(fs) == [things |-> Slice(fs), err |-> ""]

\* getCallgraphFromOracle without the check for a missing call graph
getCallgraphFromOracle_NoNilCheck(cur, answer) ==
    IF answer.err # "" THEN [err |-> answer.err, Callgraph |-> cur]
    ELSE [err |-> "", Callgraph |-> answer.cg]

\* getCallgraphFromOracle() on the answer of oracle.Query, answer =
\* [err, cg]: [err, Callgraph], Callgraph the field's value afterwards
getCallgraphFromOracle(cur, answer) ==
    IF answer.err # "" THEN [err |-> answer.err, Callgraph |-> cur]
    ELSE IF answer.cg.isNil
    THEN [err |-> "no callgraph present in oracle results", Callgraph |-> cur]
    ELSE [err |-> "", Callgraph |-> answer.cg]

\* The finder's fields as a call of Run finds them, with what the call has
\* returned (things, err) and done (parsed, queried, built, computed) so far.
AtEntry ==
    [funcs |-> funcs, pkgs |-> pkgs, numFilesRead |-> numFilesRead,
     filesByCaller |-> filesByCaller, Callgraph |-> Callgraph,
     parsed |-> <<>>, queried |-> FALSE, built |-> FALSE, computed |-> FALSE,
     things |-> NilSlice, err |-> ""]

\* Run's first return statements: the sanity check failed
ReturnSanityError(o, e) == [o EXCEPT !.err = e]

\* Run's collection stage: the loop over fileArgs
Collected(o, c) ==
    [o EXCEPT !.funcs = c.funcs, !.pkgs = c.pkgs,
              !.numFilesRead = c.numFilesRead, !.parsed = c.parsed]

Collect(o, fileArgs) ==
    Collected(o, ReadArgs([funcs |-> o.funcs, pkgs |-> o.pkgs,
                           numFilesRead |-> o.numFilesRead, parsed |-> <<>>],
                          fileArgs))

\* Run's return in identifiers-only mode
ReturnIdents(o, ret) == [o EXCEPT !.things = ret.things, !.err = ret.err]

\* Run's last stage: buildFileMap, computeUnusedFuncs, return
Compute(o, fbc) ==
    [o EXCEPT !.filesByCaller = fbc, !.built = TRUE, !.computed = TRUE,
              !.things = Slice(computeUnusedFuncs(fbc, o.funcs))]

\* Run from the oracle query on; got is what getCallgraphFromOracle gave
AfterQuery(o, got) ==
    IF got.err # ""
    THEN [o EXCEPT !.queried = TRUE, !.err = got.err]
    ELSE Compute([o EXCEPT !.queried = TRUE, !.Callgraph = got.Callgraph],
                 buildFileMap(o.filesByCaller, got.Callgraph.items))

\* Run after the collection stage
AfterCollect(o, answer) ==
    IF ReturnsIdents(Idents)
    THEN ReturnIdents(o, findUnusedIdents(o.funcs))
    ELSE AfterQuery(o, getCallgraphFromOracle(o.Callgraph, answer))

\* Run after the sanity checks, e their verdict
AfterSanity(o, e, fileArgs, answer) ==
    IF e # "" THEN ReturnSanityError(o, e)
    ELSE AfterCollect(Collect(o, fileArgs), answer)

\* What one call Run(fileArgs) does, the oracle answering `answer` if asked
RunOutcome(fileArgs, answer) ==
    AfterSanity(AtEntry, SanityError(fileArgs), fileArgs, answer)

-----------------------------------------------------------------------------
(* Inputs.                                                                 *)

\* call graphs the oracle may answer with, or a caller may set beforehand
Graph1 ==
    << [Name |-> "p.foo",   Pos |-> "/g/src/p/a.go:3:6"],
       [Name |-> "nodot",   Pos |-> "/g/src/p/b.go:1:1"],
       [Name |-> "q.r.bar", Pos |-> "/x/b.go:2:1"],
       [Name |-> "p.foo",   Pos |-> "/o/m.go:1:6"],
       [Name |-> "p.",      Pos |-> "-"] >>

Graph2 ==
    << [Name |-> "main.bar", Pos |-> "/g/src/p/b.go:1:6"],
       [Name |-> "s.baz",    Pos |-> "/g/src/p/s/c.go:2:6"],
       [Name |-> "main.bar", Pos |-> "/g/src/p/b.go:1:6"],
       [Name |-> "bar",      Pos |-> "/g/src/p/a.go:9:9"] >>

\* what oracle.Query may answer: an error, a result without a call graph, a call graph
OracleAnswers ==
    { [err |-> "oracle failed", cg |-> NilSlice],
      [err |-> "", cg |-> NilSlice],
      [err |-> "", cg |-> Slice(Graph1)],
      [err |-> "", cg |-> Slice(Graph2)] }

NotAsked == [err |-> "not asked", cg |-> NilSlice]

\* argument lists of Run
ArgLists ==
    { <<>>,
      <<"/g/src/p">>,
      <<"b.go", "/o/m.go", "/g/src/p/a.go">> }

\* broken parts of the file tree: files that do not parse, entries Lstat fails on
Faults ==
    { [bad |-> {}, stat |-> {}],
      [bad |-> {"/g/src/p/a.go"}, stat |-> {}],
      [bad |-> {"/g/src/p/b.go"}, stat |-> {}],
      [bad |-> {}, stat |-> {"/g/src/p/n.txt"}] }

NoRun == [ran |-> FALSE]

-----------------------------------------------------------------------------
(* The state machine.                                                      *)

Init ==
    /\ Callgraph = NilSlice
    /\ Ignore = ""
    /\ IncludeAll = FALSE
    /\ Idents = FALSE
    /\ filesByCaller = << >>
    /\ pkgs = {}
    /\ funcs = << >>
    /\ numFilesRead = 0
    /\ GOPATH \in {"", "/x:/g"}
    /\ \E f \in Faults : badFiles = f.bad /\ statErrs = f.stat
    /\ runs = 0
    /\ last = NoRun
    /\ prev = NoRun

\* NewUnusedFunctionFinder(): a caller drops the finder and constructs a new one
NewUnusedFunctionFinder ==
    /\ runs > 0
    /\ Callgraph' = NilSlice
    /\ Ignore' = ""
    /\ IncludeAll' = FALSE
    /\ Idents' = FALSE
    /\ filesByCaller' = << >>
    /\ pkgs' = {}
    /\ funcs' = << >>
    /\ numFilesRead' = 0
    /\ runs' = 0
    /\ last' = NoRun
    /\ prev' = NoRun
    /\ UNCHANGED <<GOPATH, badFiles, statErrs>>

\* the caller sets an exported field before the first Run
SetIgnore(s) ==
    /\ runs = 0
    /\ Ignore' = s
    /\ UNCHANGED <<Callgraph, IncludeAll, Idents, filesByCaller, pkgs, funcs,
                   numFilesRead, GOPATH, badFiles, statErrs, runs, last, prev>>

SetIncludeAll(b) ==
    /\ runs = 0
    /\ IncludeAll' = b
    /\ UNCHANGED <<Callgraph, Ignore, Idents, filesByCaller, pkgs, funcs,
                   numFilesRead, GOPATH, badFiles, statErrs, runs, last, prev>>

SetIdents(b) ==
    /\ runs = 0
    /\ Idents' = b
    /\ UNCHANGED <<Callgraph, Ignore, IncludeAll, filesByCaller, pkgs, funcs,
                   numFilesRead, GOPATH, badFiles, statErrs, runs, last, prev>>

SetCallgraph(cg) ==
    /\ runs = 0
    /\ Callgraph' = cg
    /\ UNCHANGED <<Ignore, IncludeAll, Idents, filesByCaller, pkgs, funcs,
                   numFilesRead, GOPATH, badFiles, statErrs, runs, last, prev>>

\* Run(fileArgs)
Run(fileArgs, answer) ==
    /\ runs < MaxRuns
    /\ \E r \in {RunOutcome(fileArgs, answer)} :
           /\ funcs' = r.funcs
           /\ pkgs' = r.pkgs
           /\ numFilesRead' = r.numFilesRead
           /\ filesByCaller' = r.filesByCaller
           /\ Callgraph' = r.Callgraph
           /\ last' = [ran |-> TRUE, args |-> fileArgs,
                       answer |-> IF r.queried THEN answer ELSE NotAsked,
                       pre |-> [funcs |-> funcs, pkgs |-> pkgs,
                                numFilesRead |-> numFilesRead,
                                filesByCaller |-> filesByCaller,
                                Callgraph |-> Callgraph],
                       parsed |-> r.parsed, queried |-> r.queried,
                       built |-> r.built, computed |-> r.computed,
                       things |-> r.things, err |-> r.err]
    /\ prev' = last
    /\ runs' = runs + 1
    /\ UNCHANGED <<Ignore, IncludeAll, Idents, GOPATH, badFiles, statErrs>>

Next ==
    \/ NewUnusedFunctionFinder
    \/ \E s \in {"", "b.go"} : SetIgnore(s)
    \/ \E b \in BOOLEAN : SetIncludeAll(b)
    \/ \E b \in BOOLEAN : SetIdents(b)
    \/ \E cg \in {NilSlice, Slice(Graph1)} : SetCallgraph(cg)
    \/ \E fileArgs \in ArgLists, answer \in OracleAnswers : Run(fileArgs, answer)

Spec == Init /\ [][Next]_vars

-----------------------------------------------------------------------------
(* Properties.                                                             *)

Range(seq) == {seq[i] : i \in 1..Len(seq)}

\* the finder's run state equals the snapshot
StateIs(snap) ==
    /\ funcs = snap.funcs
    /\ pkgs = snap.pkgs
    /\ numFilesRead = snap.numFilesRead
    /\ filesByCaller = snap.filesByCaller
    /\ Callgraph = snap.Callgraph

\* some position the index holds for d's name contains d's file
SomePositionContainsFile(index, d) ==
    \E k \in DOMAIN index :
        k = d.Name /\ \E i \in DOMAIN index[k] : Contains(index[k][i], d.File)

\* C1: after a run that computed the unused set, a collected declaration is
\* among the findings if and only if no position the caller index holds for
\* its name contains its file (so always when its name is not in the index).
C1_ReportedIffNoPositionContainsFile ==
    (last.ran /\ last.computed) =>
        \A i \in 1..Len(funcs) :
            (funcs[i] \in Range(last.things.items))
                <=> ~SomePositionContainsFile(filesByCaller, funcs[i])

C1_Witness ==
    /\ last.ran /\ last.computed
    /\ \E i, j, k \in 1..Len(funcs) :
        /\ funcs[i].Name \notin DOMAIN filesByCaller
        /\ funcs[i] \in Range(last.things.items)
        /\ funcs[j].Name \in DOMAIN filesByCaller
        /\ funcs[j] \in Range(last.things.items)
        /\ SomePositionContainsFile(filesByCaller, funcs[k])
        /\ funcs[k] \notin Range(last.things.items)

NameIsExcluded(n) ==
    n = "main" \/ n = "init" \/ n = "test" \/ Contains(n, "Test")

\* C2: no collected declaration, and no finding computed from them, is named
\* main, init or test, or has a name containing Test.
C2_ExcludedNamesNeverCollected ==
    /\ \A i \in 1..Len(funcs) : ~NameIsExcluded(funcs[i].Name)
    /\ (last.ran /\ last.computed) =>
           \A i \in 1..Len(last.things.items) : ~NameIsExcluded(last.things.items[i].Name)

\* a.go (foo, main, TestFoo), b.go (init) and c.go (test) were all read
C2_Witness ==
    /\ last.ran /\ last.computed
    /\ [Name |-> "foo", File |-> "/g/src/p/a.go"] \in Range(funcs)
    /\ [Name |-> "bar", File |-> "/g/src/p/b.go"] \in Range(funcs)
    /\ [Name |-> "baz", File |-> "/g/src/p/s/c.go"] \in Range(funcs)
    /\ Len(last.things.items) > 0

\* C3: the first Run on a finder whose Callgraph was set beforehand does not
\* query the oracle, and in normal mode computes the findings from that graph.
C3_PreSuppliedGraphBypassesQuery ==
    (last.ran /\ runs = 1 /\ ~last.pre.Callgraph.isNil /\ SanityError(last.args) = "") =>
        /\ ~last.queried
        /\ ~Idents =>
              /\ last.computed
              /\ last.things.items =
                    computeUnusedFuncs(buildFileMap(last.pre.filesByCaller,
                                                    last.pre.Callgraph.items), funcs)

OracleErrors == {"oracle failed", "no callgraph present in oracle results"}

\* C4: a Run in identifiers-only mode never queries the oracle: it returns
\* after the collection stage, builds no index, and returns no oracle error.
C4_IdentsNeverQueriesOracle ==
    (last.ran /\ Idents) =>
        /\ ~last.queried
        /\ ~last.built /\ ~last.computed
        /\ last.err \notin OracleErrors
        /\ filesByCaller = last.pre.filesByCaller
        /\ Callgraph = last.pre.Callgraph

C4_Witness ==
    /\ last.ran /\ Idents
    /\ last.parsed # <<>>
    /\ last.err = ""
    /\ Len(last.things.items) > 0

\* the files below a path, named as a walk from that path names them
RECURSIVE FilesBelow(_), FilesBelowNames(_, _)
FilesBelow(path) ==
    IF isDir(path) THEN FilesBelowNames(path, DirEntries[Abs(path)]) ELSE {path}

FilesBelowNames(dir, names) ==
    IF names = <<>> THEN {}
    ELSE FilesBelow(Join(dir, Head(names))) \cup FilesBelowNames(dir, Tail(names))

\* reading this file alone succeeds: it is eligible, it parses, and its
\* package resolves where the package is needed
ReadsAlone(f) ==
    /\ canReadSourceFile(f)
    /\ ParseOK(f)
    /\ (SourceFiles[Abs(f)].pkg = "main" \/ IncludeAll) => ~getFullPkgName(f).err

\* every declaration of the file that is not excluded is among the collected
DeclarationsCollected(f) ==
    \A n \in Range(SourceFiles[Abs(f)].nodes) :
        (n # "" /\ ~NameIsExcluded(n)) => [Name |-> n, File |-> f] \in Range(funcs)

\* C5: when files fail to parse (and nothing else is wrong with the tree),
\* every file under the arguments that reads successfully on its own has its
\* declarations collected, and Run returns no error for the parse failure.
C5_ParseFailureSkipsOnlyThatFile ==
    (last.ran /\ SanityError(last.args) = "" /\ statErrs = {}) =>
        /\ \A k \in 1..Len(last.args) :
              \A f \in FilesBelow(last.args[k]) :
                  ReadsAlone(f) => DeclarationsCollected(f)
        /\ last.err \in {""} \cup OracleErrors

C7_FatalPreconditionLeavesStateAlone ==
    (last.ran /\ (Len(last.args) = 0 \/ GOPATH = "")) =>
        /\ last.err # ""
        /\ last.things.isNil
        /\ last.parsed = <<>>
        /\ ~last.queried /\ ~last.built /\ ~last.computed
        /\ StateIs(last.pre)

\* both fatal preconditions, the second on a finder that already holds state
C7_Witness ==
    /\ last.ran /\ prev.ran
    /\ Len(last.args) = 0
    /\ GOPATH # ""
    /\ last.err = "no files supplied as arguments"
    /\ Len(funcs) > 0
    /\ DOMAIN filesByCaller # {}

\* C8: in normal mode, when the oracle answers with an error or without a
\* call graph, Run returns an error (the oracle's own when it gave one) and
\* a nil list, builds no index and computes no unused set.
C8_OracleFailureIsFatal ==
    (last.ran /\ last.queried /\ (last.answer.err # "" \/ last.answer.cg.isNil)) =>
        /\ last.err # ""
        /\ last.answer.err # "" => last.err = last.answer.err
        /\ last.things.isNil
        /\ ~last.built /\ ~last.computed
        /\ filesByCaller = last.pre.filesByCaller
        /\ Callgraph = last.pre.Callgraph

\* the oracle gives no call graph while the finder holds one of an earlier run
C8_Witness ==
    /\ last.ran /\ last.queried
    /\ last.answer.err = "" /\ last.answer.cg.isNil
    /\ ~Callgraph.isNil
    /\ Len(funcs) > 0
    /\ last.err # ""

RECURSIVE IsSubsequence(_, _)
IsSubsequence(a, b) ==
    IF a = <<>> THEN TRUE
    ELSE IF b = <<>> THEN FALSE
    ELSE IF Head(a) = Head(b) THEN IsSubsequence(Tail(a), Tail(b))
    ELSE IsSubsequence(a, Tail(b))

\* C9: the findings of a run are a subsequence of the collected
\* declarations: the same records, no more often, in the same order.
C9_FindingsAreSubsequence ==
    (last.ran /\ last.computed) => IsSubsequence(last.things.items, funcs)

C9_Witness ==
    /\ last.ran /\ last.computed
    /\ Len(last.things.items) >= 2
    /\ Len(last.things.items) < Len(funcs)
    /\ last.things.items[1] # last.things.items[2]

HasDot(name) == \E i \in 1..Len(name) : SubSeq(name, i, i) = "."

\* the part of a dotted name after its last dot
ShortName(name) ==
    CHOOSE t \in {SubSeq(name, i, Len(name)) : i \in 1..(Len(name) + 1)} :
        /\ ~HasDot(t)
        /\ HasSuffix(name, "." \o t)

\* the positions of the edges with short name n, in edge order
PositionsOf(cg, n) ==
    LET hit(e) == HasDot(e.Name) /\ ShortName(e.Name) = n
        edges  == SelectSeq(cg, hit)
    IN  [i \in 1..Len(edges) |-> edges[i].Pos]

IndexBefore(n) ==
    IF n \in DOMAIN last.pre.filesByCaller THEN last.pre.filesByCaller[n] ELSE <<>>

\* C10: buildFileMap adds nothing for an edge without a dot and appends every
\* other edge's position to the list of the name after its last dot: the
\* index afterwards has the keys it had and those short names, and each list
\* is what it was followed by the positions of the edges with that short
\* name, in edge order, duplicates kept.
C10_IndexHoldsPositionsByShortName ==
    (last.ran /\ last.built) =>
        /\ DOMAIN filesByCaller =
              DOMAIN last.pre.filesByCaller
                \cup {ShortName(e.Name) : e \in {x \in Range(Callgraph.items) : HasDot(x.Name)}}
        /\ \A n \in DOMAIN filesByCaller :
              filesByCaller[n] = IndexBefore(n) \o PositionsOf(Callgraph.items, n)

\* an index built from nothing, from edges with no dot, two dots and repeats
C10_Witness ==
    /\ last.ran /\ last.built
    /\ DOMAIN last.pre.filesByCaller = {}
    /\ Callgraph.items = Graph1
    /\ filesByCaller["foo"] = <<"/g/src/p/a.go:3:6", "/o/m.go:1:6">>
    /\ "nodot" \notin DOMAIN filesByCaller

====
